---- MODULE Spec2Model ----
(***************************************************************************)
(* Model of the Yahoo news archive spider, YahooArchivePWSpider, of        *)
(* src/yahoo_news/yahoo_news/spiders/yahoo_archive.py.                     *)
(*                                                                         *)
(* The spider runs on one event loop.  A callback runs without             *)
(* interruption up to its next suspension point: an await, or a yield of   *)
(* the asynchronous generator parse_archive.  Every action below is one    *)
(* such uninterrupted stretch of code; the downloader's completions and    *)
(* the article callbacks may run between any two of them.                  *)
(*                                                                         *)
(* Time is counted in half hours.  An aware datetime is the integer        *)
(* instant it denotes (half hours, UTC); a timestamp string is a record    *)
(* of its wall-clock reading and of the zone designator written after it.  *)
(***************************************************************************)
EXTENDS Integers, Sequences, FiniteSets, TLC

-----------------------------------------------------------------------------
(* Bounds of the model *)

\* URLs 1..NumUrls stand for https://tw.news.yahoo.com/<i>.html
NumUrls == 2
\* anchors one rendering of the listing holds at most
MaxAnchors == 2
\* largest value of the max_scroll, max_urls and old_streak_stop options tried
MaxOption == 2
\* rows an output file found by the sort step holds at most
MaxRows == 3

-----------------------------------------------------------------------------
(* Values *)

\* Python's None for the optional integer options
None == -1
\* Python's None as the result of _parse_datetime
NoDt == -1000
\* utcoffset of ZoneInfo("Asia/Taipei"), in half hours
TZ == 16
\* timedelta(hours=1), in half hours
Hour == 2
\* the wall-clock reading of the `end` argument ("... 10:00")
EndWall == 20

URLs == 1..NumUrls

\* datetime.strptime(end, ...).replace(tzinfo=TZ)
end_dt == EndWall - TZ
\* self.end_dt - timedelta(hours=1)
start_dt == end_dt - Hour

(* timestamp strings *)
DtNone == [zone |-> "none", wall |-> 0]
DtEmpty == [zone |-> "empty", wall |-> 0]
DtBad == [zone |-> "bad", wall |-> 0]
Naive(w) == [zone |-> "naive", wall |-> w]
ZuluStr(w) == [zone |-> "Z", wall |-> w]
Plus8(w) == [zone |-> "+08:00", wall |-> w]
Plus9(w) == [zone |-> "+09:00", wall |-> w]

\* the offset a designator denotes, in half hours
OffsetOf(zone) ==
    CASE zone = "Z" -> 0
      [] zone = "+00:00" -> 0
      [] zone = "+08:00" -> 16
      [] zone = "+09:00" -> 18

\* Python truthiness of an optional string: None and "" are falsy
Truthy(s) == s.zone \notin {"none", "empty"}

\* a or b or c
Or3(a, b, c) == IF Truthy(a) THEN a ELSE IF Truthy(b) THEN b ELSE c

\* _parse_datetime
ParseDatetime(s) ==
    IF ~Truthy(s) THEN NoDt
    ELSE IF s.zone = "bad" THEN NoDt
    ELSE IF s.zone = "Z" THEN s.wall - OffsetOf("+00:00")
    ELSE IF s.zone = "naive" THEN s.wall - TZ
    ELSE s.wall - OffsetOf(s.zone)

\* an isoformat() that writes the UTC reading under the +08:00 designator
IsoFormatUnconverted(dt) == Plus8(dt)

\* datetime.isoformat() of a datetime in TZ
IsoFormat(dt) == Plus8(dt + TZ)

(* the timestamps the listing and the article pages show, around the window *)
OldStr == Naive(EndWall - Hour - 1)
StartStr == Plus8(EndWall - Hour)
MidStr == ZuluStr(end_dt - 1)
EndStr == Plus8(EndWall)
NewStr == Plus9(EndWall + 3)

\* an anchor of the rendered listing: its href and the three places a <time> may sit
AnchorOf(u, c, p, a) == [href |-> u, t_child |-> c, t_parent |-> p, t_anc |-> a]

\* the shapes of anchor tried: no <time> at all, one inside the anchor, one
\* beside it, one further up
AnchorTimes ==
    { <<DtNone, DtNone, DtNone>>,
      <<NewStr, OldStr, DtNone>>,
      <<DtNone, OldStr, MidStr>>,
      <<DtEmpty, DtNone, EndStr>> }

Anchors == {AnchorOf(u, t[1], t[2], t[3]) : u \in URLs, t \in AnchorTimes}

(* texts: Python's None is NoText; the other texts are what they read *)
NoText == "<None>"

\* str.strip() on the texts used
Strip(s) ==
    CASE s = " " -> ""
      [] s = " Ann " -> "Ann"
      [] s = " Desk " -> "Desk"
      [] OTHER -> s

\* Python truthiness of an optional text
TruthyText(s) == s \notin {NoText, ""}

(* JSON values: null (or a key that is absent), a string, a mapping with the *)
(* keys @type, name, author and others, a list, anything else               *)
JNull == [kind |-> "null"]
JOther == [kind |-> "other"]
JStr(s) == [kind |-> "str", text |-> s]
JList(items) == [kind |-> "list", items |-> items]
JDict(type, name, author, rest) ==
    [kind |-> "dict", type |-> type, name |-> name, author |-> author, rest |-> rest]

\* a <script type="application/ld+json"> block: blank, not JSON, or a payload
Blank == [raw |-> "blank", payload |-> JNull]
Malformed == [raw |-> "malformed", payload |-> JNull]
Script(payload) == [raw |-> "json", payload |-> payload]

\* an article page: the three places parse_article looks for the date; no
\* structured data, no author meta tag, no rel=author node
PageOf(t, m, p) ==
    [time_attr |-> t, published_time |-> m, pubdate |-> p,
     jsonld |-> <<>>, meta_author |-> NoText, rel_author |-> NoText]

\* the page with its ld+json scripts and its two author nodes
WithAuthor(page, scripts, meta, rel) ==
    [page EXCEPT !.jsonld = scripts, !.meta_author = meta, !.rel_author = rel]

Pages ==
    { PageOf(DtNone, DtNone, DtNone),
      PageOf(DtBad, MidStr, DtNone),
      PageOf(StartStr, NewStr, DtNone),
      PageOf(DtEmpty, DtNone, OldStr),
      PageOf(DtNone, NewStr, MidStr) }

\* the values tried for max_urls, and for max_scroll
OptionValues == {None} \cup (0..MaxOption)
ScrollValues == {None, 0, MaxOption}

-----------------------------------------------------------------------------
VARIABLES
    max_scroll, max_urls, old_streak_stop,
    seen_urls, old_count_streak, seen_recent_article, stop_requested, item_count,
    close_reason,
    pc, archive_retry_count, scroll_round, idx,
    requests, output, run_ended,
    archive_requests, dispatch_count, g_recent, g_old, last

options == <<max_scroll, max_urls, old_streak_stop>>
scan == <<seen_urls, old_count_streak, seen_recent_article, stop_requested>>
ghosts == <<archive_requests, dispatch_count, g_recent, g_old, last>>
vars == <<options, scan, item_count, close_reason, pc, archive_retry_count,
          scroll_round, idx, requests, output, run_ended, ghosts>>

-----------------------------------------------------------------------------
(* The conditions the code tests *)

\* a loop that lacks the seen_urls test
AlreadySeenNever(url) == FALSE

\* `url in self.seen_urls`
AlreadySeen(url) == url \in seen_urls

\* a test that finds nothing too new
TooNewNever(dt) == FALSE

\* `archive_pub_dt > self.end_dt`, `pub_dt > self.end_dt`
TooNew(dt) == dt > end_dt

\* `archive_pub_dt < self.start_dt`, `pub_dt < self.start_dt`
TooOld(dt) == dt < start_dt

\* an increment that is lost
OldStreakLost(streak, seen_recent) == streak

\* an increment that does not wait for a recent article
OldStreakAlways(streak, seen_recent) == streak + 1

\* `if self.seen_recent_article: self.old_count_streak += 1`
OldStreakNext(streak, seen_recent) == IF seen_recent THEN streak + 1 ELSE streak

\* a threshold test that any counted item passes
StopAfterOldAtOnce(streak, seen_recent) == seen_recent

\* a threshold test with > for >=
StopAfterOldStrict(streak, seen_recent) == seen_recent /\ streak > old_streak_stop

\* `if self.old_count_streak >= self.old_streak_stop`, inside `if self.seen_recent_article`
StopAfterOld(streak, seen_recent) == seen_recent /\ streak >= old_streak_stop

\* `self.max_urls is not None and len(self.seen_urls) >= self.max_urls`
MaxUrlsReached(seen) == max_urls # None /\ Cardinality(seen) >= max_urls

\* a max_scroll test with > for >=
MaxScrollReachedLate(round) == max_scroll # None /\ round > max_scroll

\* `self.max_scroll is not None and scroll_round >= self.max_scroll`
MaxScrollReached(round) == max_scroll # None /\ round >= max_scroll

\* a scroll loop that lacks the stop_requested test
StopNeverAtLoopTop == FALSE

\* `if self.stop_requested: ... break` at the top of the scroll loop
StopAtLoopTop == stop_requested

\* a retry test with <= for <
RetryAllowedOnceMore(retry_count) == retry_count <= 2

\* `if retry_count < 2` of on_archive_error
RetryAllowed(retry_count) == retry_count < 2

\* the code after the for loop: the max_urls check, else scroll and wait
AfterFor(seen) == IF MaxUrlsReached(seen) THEN "done" ELSE "scrolling"

\* `scroll_round += 1`.  Only the max_scroll test and the log read the counter:
\* with max_scroll None the loop may run for ever, and the count is not kept
NextRound(round) == IF max_scroll = None THEN round ELSE round + 1

-----------------------------------------------------------------------------
(* History: the class of a classified instant, read off the window itself *)

Classify(dt) ==
    IF dt > end_dt THEN "TOO_NEW"
    ELSE IF dt < start_dt THEN "TOO_OLD"
    ELSE "IN_WINDOW"

\* g_recent: a classification found an instant inside the window;
\* g_old: the classifications as too old since the latest of those
Classified(dt) ==
    /\ g_recent' = (g_recent \/ Classify(dt) = "IN_WINDOW")
    /\ g_old' = CASE Classify(dt) = "IN_WINDOW" -> 0
                  [] Classify(dt) = "TOO_OLD" -> IF g_recent THEN g_old + 1 ELSE 0
                  [] OTHER -> g_old

\* last: the path the latest step took through the code and, for a step that
\* handled an anchor or an article, its URL and the datetime it parsed
StepOn(label, url, dt) == [step |-> label, url |-> url, dt |-> dt]
Step(label) == StepOn(label, 0, NoDt)

-----------------------------------------------------------------------------
Init ==
    /\ max_scroll \in ScrollValues
    /\ max_urls \in OptionValues
    /\ old_streak_stop \in 0..MaxOption
    /\ seen_urls = {}
    /\ old_count_streak = 0
    /\ seen_recent_article = FALSE
    /\ stop_requested = FALSE
    /\ item_count = 0
    /\ close_reason = "unknown"
    /\ pc = "start"
    /\ archive_retry_count = 0
    /\ scroll_round = 0
    /\ idx = 0
    /\ requests = {}
    /\ output = <<>>
    /\ run_ended = FALSE
    /\ archive_requests = 0
    /\ dispatch_count = [u \in URLs |-> 0]
    /\ g_recent = FALSE
    /\ g_old = 0
    /\ last = Step("init")

-----------------------------------------------------------------------------
(* The listing request *)

\* start_requests: yield self._make_archive_request(retry_count=0)
StartRequests ==
    /\ pc = "start"
    /\ pc' = "archive_request"
    /\ archive_retry_count' = 0
    /\ archive_requests' = archive_requests + 1
    /\ last' = Step("start_requests")
    /\ UNCHANGED <<options, scan, item_count, close_reason, scroll_round, idx,
                   requests, output, run_ended, dispatch_count,
                   g_recent, g_old>>

\* on_archive_error: the listing request failed
OnArchiveError ==
    /\ pc = "archive_request"
    /\ IF RetryAllowed(archive_retry_count)
       THEN /\ pc' = "archive_request"
            /\ archive_retry_count' = archive_retry_count + 1
            /\ archive_requests' = archive_requests + 1
            /\ last' = Step("archive_retry")
       ELSE /\ pc' = "gave_up"
            /\ last' = Step("archive_gave_up")
            /\ UNCHANGED <<archive_retry_count, archive_requests>>
    /\ UNCHANGED <<options, scan, item_count, close_reason, scroll_round, idx,
                   requests, output, run_ended, dispatch_count,
                   g_recent, g_old>>

\* parse_archive is called with the listing response: up to `await page.route(...)`
ArchiveResponse ==
    /\ pc = "archive_request"
    /\ pc' = "routing"
    /\ scroll_round' = 0
    /\ last' = Step("archive_response")
    /\ UNCHANGED <<options, scan, item_count, close_reason, archive_retry_count, idx,
                   requests, output, run_ended, archive_requests,
                   dispatch_count, g_recent, g_old>>

\* the top of `while True`, entered from page.route or from the scroll wait:
\* the two stop checks, `scroll_round += 1`, and the call of page.content()
LoopTop ==
    /\ pc \in {"routing", "scrolling"}
    /\ IF StopAtLoopTop
       THEN /\ pc' = "done"
            /\ last' = Step("loop_stop_requested")
            /\ UNCHANGED scroll_round
       ELSE IF MaxScrollReached(scroll_round)
       THEN /\ pc' = "done"
            /\ last' = Step("loop_max_scroll")
            /\ UNCHANGED scroll_round
       ELSE /\ pc' = "await_content"
            /\ scroll_round' = NextRound(scroll_round)
            /\ last' = Step("round_begun")
    /\ UNCHANGED <<options, scan, item_count, close_reason, archive_retry_count, idx,
                   requests, output, run_ended, archive_requests,
                   dispatch_count, g_recent, g_old>>

\* page.content() returns: the selector and its anchors, `added = 0`
Content ==
    /\ pc = "await_content"
    /\ pc' = "for_anchors"
    /\ idx' = 0
    /\ last' = Step("content")
    /\ UNCHANGED <<options, scan, item_count, close_reason, archive_retry_count,
                   scroll_round, requests, output, run_ended,
                   archive_requests, dispatch_count, g_recent, g_old>>

-----------------------------------------------------------------------------
(* One pass of `for anchor in anchors`, up to the yield or the continue/break. *)
(* The rendered listing is the collaborator's: the loop reads its anchors in   *)
(* document order and never looks ahead, so each anchor is drawn when the loop *)
(* reaches it.  Anchors the three href tests reject are left out.  The         *)
(* max_urls test that follows the yield reads only seen_urls and max_urls,     *)
(* which no other callback writes, and is taken with the pass.                 *)

\* the `continue` paths leave the scan state alone
ListingSkip(label, url, dt) ==
    /\ pc' = "for_anchors"
    /\ idx' = idx + 1
    /\ last' = StepOn(label, url, dt)

\* `if archive_pub_dt < self.start_dt:` ... `continue`
ListingTooOld(url, dt) ==
    LET streak == OldStreakNext(old_count_streak, seen_recent_article)
        stop == StopAfterOld(streak, seen_recent_article)
    IN  /\ old_count_streak' = streak
        /\ stop_requested' = (stop_requested \/ stop)
        /\ IF stop
           THEN /\ pc' = AfterFor(seen_urls)
                /\ last' = StepOn("listing_old_stop", url, dt)
                /\ UNCHANGED idx
           ELSE ListingSkip(IF seen_recent_article THEN "listing_old_counted"
                                                   ELSE "listing_old_ignored",
                            url, dt)
        /\ Classified(dt)
        /\ UNCHANGED <<seen_urls, seen_recent_article, requests, dispatch_count>>

\* a dispatch that does not record the URL
SeenAfterDispatchLost(seen, url) == seen

\* `self.seen_urls.add(url)`
SeenAfterDispatch(seen, url) == seen \cup {url}

\* `self.seen_urls.add(url)` ... `yield scrapy.Request(url, ...)` and the test after it
Dispatch(url, archive_dt_str, archive_pub_dt) ==
    /\ IF archive_pub_dt # NoDt
       THEN /\ seen_recent_article' = TRUE
            /\ old_count_streak' = 0
            /\ Classified(archive_pub_dt)
       ELSE UNCHANGED <<seen_recent_article, old_count_streak, g_recent, g_old>>
    /\ seen_urls' = SeenAfterDispatch(seen_urls, url)
    /\ requests' = requests \cup {[url |-> url, archive_dt_str |-> archive_dt_str]}
    /\ dispatch_count' = [dispatch_count EXCEPT ![url] = @ + 1]
    /\ IF MaxUrlsReached(seen_urls')
       THEN /\ pc' = AfterFor(seen_urls')
            /\ UNCHANGED idx
       ELSE /\ pc' = "for_anchors"
            /\ idx' = idx + 1
    /\ last' = StepOn("listing_dispatch", url, archive_pub_dt)
    /\ UNCHANGED stop_requested

Candidate(anchor) ==
    /\ pc = "for_anchors"
    /\ idx < MaxAnchors
    /\ LET url == anchor.href
           archive_dt_str == Or3(anchor.t_child, anchor.t_parent, anchor.t_anc)
           archive_pub_dt == ParseDatetime(archive_dt_str)
       IN  IF AlreadySeen(url)
           THEN /\ ListingSkip("listing_seen", url, NoDt)
                /\ UNCHANGED <<scan, requests, dispatch_count, g_recent, g_old>>
           ELSE IF archive_pub_dt # NoDt /\ TooNew(archive_pub_dt)
           THEN /\ ListingSkip("listing_new", url, archive_pub_dt)
                /\ Classified(archive_pub_dt)
                /\ UNCHANGED <<scan, requests, dispatch_count>>
           ELSE IF archive_pub_dt # NoDt /\ TooOld(archive_pub_dt)
           THEN ListingTooOld(url, archive_pub_dt)
           ELSE Dispatch(url, archive_dt_str, archive_pub_dt)
    /\ UNCHANGED <<options, item_count, close_reason, archive_retry_count,
                   scroll_round, output, run_ended, archive_requests>>

\* the anchors are exhausted: the log line, the max_urls test, else
\* page.evaluate(scrollBy) and page.wait_for_timeout
EndFor ==
    /\ pc = "for_anchors"
    /\ pc' = AfterFor(seen_urls)
    /\ last' = Step("end_for")
    /\ UNCHANGED <<options, scan, item_count, close_reason, archive_retry_count,
                   scroll_round, idx, requests, output, run_ended,
                   archive_requests, dispatch_count, g_recent, g_old>>

-----------------------------------------------------------------------------
(* Article requests *)

\* an article request fails: it has no errback, the failure is logged
ArticleFailed(req) ==
    /\ req \in requests
    /\ requests' = requests \ {req}
    /\ last' = StepOn("article_failed", req.url, NoDt)
    /\ UNCHANGED <<options, scan, item_count, close_reason, pc, archive_retry_count,
                   scroll_round, idx, output, run_ended, archive_requests,
                   dispatch_count, g_recent, g_old>>

\* `dt_str = time or published_time or pubdate`,
\* `pub_dt = self._parse_datetime(dt_str) or self._parse_datetime(archive_dt_str)`
ResolveDate(page, archive_dt_str) ==
    LET dt_str == Or3(page.time_attr, page.published_time, page.pubdate)
        first == ParseDatetime(dt_str)
    IN  IF first # NoDt THEN first ELSE ParseDatetime(archive_dt_str)

\* which of the words the code looks for the lower-cased @type holds, a
\* list-valued @type joined by spaces
TypeWords(type) ==
    CASE type = "NewsArticle" -> {"newsarticle", "article"}
      [] type = "Article" -> {"article"}
      [] type = "Person" -> {"person"}
      [] type = "Thing Person" -> {"person"}
      [] OTHER -> {}

\* ", ".join(names)
RECURSIVE JoinNames(_)
JoinNames(names) ==
    IF Len(names) = 1 THEN names[1]
    ELSE names[1] \o ", " \o JoinNames(Tail(names))

\* _extract_person_name; ResolvedNames is its loop over a list value
RECURSIVE ExtractPersonName(_), ResolvedNames(_)
ExtractPersonName(value) ==
    CASE value.kind = "str" ->
           IF Strip(value.text) = "" THEN NoText ELSE Strip(value.text)
      [] value.kind = "dict" ->
           IF value.name.kind = "str" /\ Strip(value.name.text) # ""
           THEN Strip(value.name.text)
           ELSE NoText
      [] value.kind = "list" ->
           LET names == ResolvedNames(value.items)
           IN  IF names # <<>> THEN JoinNames(names) ELSE NoText
      [] OTHER -> NoText

ResolvedNames(items) ==
    IF items = <<>> THEN <<>>
    ELSE LET n == ExtractPersonName(Head(items))
         IN  (IF TruthyText(n) THEN <<n>> ELSE <<>>) \o ResolvedNames(Tail(items))

\* _walk_json_nodes: the mappings of a payload, each before those inside it
RECURSIVE WalkJsonNodes(_), WalkAll(_)
WalkJsonNodes(data) ==
    CASE data.kind = "dict" ->
           <<data>> \o WalkAll(<<data.name, data.author>> \o data.rest)
      [] data.kind = "list" -> WalkAll(data.items)
      [] OTHER -> <<>>

WalkAll(values) ==
    IF values = <<>> THEN <<>>
    ELSE WalkJsonNodes(Head(values)) \o WalkAll(Tail(values))

\* the body of `for node in self._walk_json_nodes(payload)` for author_name
AuthorAtNode(node, author_name) ==
    LET words == TypeWords(node.type)
        of_article ==
            IF {"newsarticle", "article"} \cap words # {} /\ author_name = NoText
            THEN ExtractPersonName(node.author)
            ELSE author_name
    IN  IF /\ of_article = NoText
           /\ "person" \in words
           /\ node.name.kind = "str"
           /\ Strip(node.name.text) # ""
        THEN Strip(node.name.text)
        ELSE of_article

RECURSIVE AuthorOverNodes(_, _)
AuthorOverNodes(nodes, author_name) ==
    IF nodes = <<>> THEN author_name
    ELSE AuthorOverNodes(Tail(nodes), AuthorAtNode(Head(nodes), author_name))

\* the author_name of _extract_from_jsonld: blank scripts and scripts that are
\* not JSON are passed over.  provider_name is resolved beside it and is left
\* out: the early return needs author_name set, and a set author_name is
\* never assigned again
RECURSIVE ExtractFromJsonld(_, _)
ExtractFromJsonld(scripts, author_name) ==
    IF scripts = <<>> THEN author_name
    ELSE LET raw == Head(scripts)
         IN  ExtractFromJsonld(Tail(scripts),
                 IF raw.raw # "json" THEN author_name
                 ELSE AuthorOverNodes(WalkJsonNodes(raw.payload), author_name))

\* an `or` chain that asks the author meta tag first
MetaAuthorFirst(jsonld_author, meta, rel) ==
    IF TruthyText(meta) THEN meta
    ELSE IF TruthyText(jsonld_author) THEN jsonld_author
    ELSE rel

\* `jsonld_author or meta[name="author"] or [rel="author"]`
FirstAuthor(jsonld_author, meta, rel) ==
    IF TruthyText(jsonld_author) THEN jsonld_author
    ELSE IF TruthyText(meta) THEN meta
    ELSE rel

\* the `author` of parse_article: `author.strip() if author else None`
AuthorOf(page) ==
    LET author == FirstAuthor(ExtractFromJsonld(page.jsonld, NoText),
                              page.meta_author, page.rel_author)
    IN  IF TruthyText(author) THEN Strip(author) ELSE NoText

\* a final test that shuts both ends of the window out
OutsideOpenWindow(pub_dt) == ~(start_dt < pub_dt /\ pub_dt < end_dt)

\* `if not (self.start_dt <= pub_dt <= self.end_dt): return`
OutsideWindow(pub_dt) == ~(start_dt <= pub_dt /\ pub_dt <= end_dt)

\* the item parse_article yields; its title and its provider are left out
ItemOf(url, pub_dt, author) ==
    [link |-> url, author |-> author, date |-> IsoFormat(pub_dt)]

\* parse_article from `if pub_dt is None` on
ArticleBody(url, pub_dt, author) ==
    IF pub_dt = NoDt
    THEN /\ last' = StepOn("article_no_date", url, pub_dt)
         /\ UNCHANGED <<scan, item_count, output, g_recent, g_old>>
    ELSE IF TooNew(pub_dt)
    THEN /\ last' = StepOn("article_new", url, pub_dt)
         /\ Classified(pub_dt)
         /\ UNCHANGED <<scan, item_count, output>>
    ELSE IF TooOld(pub_dt)
    THEN LET streak == OldStreakNext(old_count_streak, seen_recent_article)
             stop == StopAfterOld(streak, seen_recent_article)
         IN  /\ old_count_streak' = streak
             /\ stop_requested' = (stop_requested \/ stop)
             /\ last' = StepOn(IF stop THEN "article_old_stop"
                               ELSE IF seen_recent_article THEN "article_old_counted"
                               ELSE "article_old_ignored", url, pub_dt)
             /\ Classified(pub_dt)
             /\ UNCHANGED <<seen_urls, seen_recent_article, item_count, output>>
    ELSE /\ seen_recent_article' = TRUE
         /\ old_count_streak' = 0
         /\ Classified(pub_dt)
         /\ UNCHANGED <<seen_urls, stop_requested>>
         /\ IF OutsideWindow(pub_dt)
            THEN /\ last' = StepOn("article_outside", url, pub_dt)
                 /\ UNCHANGED <<item_count, output>>
            ELSE /\ item_count' = item_count + 1
                 /\ output' = Append(output, ItemOf(url, pub_dt, author))
                 /\ last' = StepOn("article_emit", url, pub_dt)

\* the downloader delivers the page of a dispatched request and parse_article
\* is called with it
ParseArticle(req, page) ==
    /\ req \in requests
    /\ requests' = requests \ {req}
    /\ ArticleBody(req.url, ResolveDate(page, req.archive_dt_str), AuthorOf(page))
    /\ UNCHANGED <<options, close_reason, pc, archive_retry_count, scroll_round, idx,
                   run_ended, archive_requests, dispatch_count>>

-----------------------------------------------------------------------------
(* The end of the run *)

\* datetime.min.replace(tzinfo=TZ): before every instant
DatetimeMin == -999

\* a sort key that orders the dates downwards
SortKeyDescending(row) == 0 - ParseDatetime(row.date)

\* the first element of the sort key of _sort_output_csv_by_date
SortKey(row) ==
    LET d == ParseDatetime(row.date)
    IN  IF d # NoDt THEN d ELSE DatetimeMin

\* a comparison of pairs that puts the later of two rows of one date first
FirstPairLastTie(rows, S) ==
    CHOOSE i \in S : \A j \in S :
        \/ SortKey(rows[i]) < SortKey(rows[j])
        \/ SortKey(rows[i]) = SortKey(rows[j]) /\ i >= j

\* the pair (key, index) that sorts first among the rows at the indices S
FirstPair(rows, S) ==
    CHOOSE i \in S : \A j \in S :
        \/ SortKey(rows[i]) < SortKey(rows[j])
        \/ SortKey(rows[i]) = SortKey(rows[j]) /\ i <= j

RECURSIVE SortIndices(_, _)
SortIndices(rows, S) ==
    IF S = {} THEN <<>>
    ELSE LET i == FirstPair(rows, S)
         IN  <<i>> \o SortIndices(rows, S \ {i})

\* rows_with_idx.sort(key=(date, index)); rows = [row for _, row in rows_with_idx]
SortRows(rows) ==
    LET order == SortIndices(rows, 1..Len(rows))
    IN  [k \in 1..Len(rows) |-> rows[order[k]]]

\* what the file system does to _sort_output_csv_by_date
IoOutcomes ==
    {"sort_ok", "sort_no_csv", "sort_read_error", "sort_open_error", "sort_write_error"}

\* the rows of the output file after _sort_output_csv_by_date; a write that
\* fails leaves the file, truncated on opening, with the k rows written so far
SortOutputCsvByDate(rows, io, k) ==
    IF io \in {"sort_no_csv", "sort_read_error"} THEN rows
    ELSE IF rows = <<>> THEN rows
    ELSE IF io = "sort_open_error" THEN rows
    ELSE IF io = "sort_write_error" THEN SubSeq(SortRows(rows), 1, k)
    ELSE SortRows(rows)

\* the engine is idle: nothing is scheduled, downloading or in a callback
EngineIdle == pc \in {"done", "gave_up"} /\ requests = {}

\* _on_spider_closed
OnSpiderClosed ==
    /\ EngineIdle
    /\ close_reason = "unknown"
    /\ close_reason' = "finished"
    /\ last' = Step("spider_closed")
    /\ UNCHANGED <<options, scan, item_count, pc, archive_retry_count, scroll_round,
                   idx, requests, output, run_ended, archive_requests,
                   dispatch_count, g_recent, g_old>>

\* _on_engine_stopped; `last` keeps what the file system did to the sort
OnEngineStopped(io, k) ==
    /\ close_reason = "finished"
    /\ ~run_ended
    /\ IF io = "sort_write_error" THEN k < Len(output) ELSE k = 0
    /\ output' = SortOutputCsvByDate(output, io, k)
    /\ run_ended' = TRUE
    /\ last' = Step(io)
    /\ UNCHANGED <<options, scan, item_count, close_reason, pc, archive_retry_count,
                   scroll_round, idx, requests, archive_requests,
                   dispatch_count, g_recent, g_old>>

-----------------------------------------------------------------------------
ArchiveStep ==
    \/ StartRequests
    \/ OnArchiveError
    \/ ArchiveResponse
    \/ LoopTop
    \/ Content
    \/ \E anchor \in Anchors : Candidate(anchor)
    \/ EndFor

ArticleStep ==
    \/ \E req \in requests, page \in Pages : ParseArticle(req, page)
    \/ \E req \in requests : ArticleFailed(req)

CloseStep ==
    \/ OnSpiderClosed
    \/ \E io \in IoOutcomes, k \in 0..NumUrls : OnEngineStopped(io, k)

Next == ArchiveStep \/ ArticleStep \/ CloseStep

Spec == Init /\ [][Next]_vars

\* every awaited call returns, the downloader answers every request and the
\* answer gets its callback, and the idle engine closes
FairSpec ==
    /\ Spec
    /\ WF_vars(ArchiveStep)
    /\ WF_vars(ArticleStep)
    /\ WF_vars(CloseStep)

-----------------------------------------------------------------------------
(* The sort step on any output file.  The feed of a run that names its own    *)
(* output appends to the file it finds, so the rows the sort step reads are   *)
(* not only those this run emitted: their dates may be empty or malformed.    *)
(* The run taken is the shortest one: the listing request failed three times  *)
(* and the spider is closed.                                                  *)

\* the `date` cells of the rows tried: unparseable, empty, and three that parse,
\* two of them to one instant
RowDates == {DtBad, DtEmpty, EndStr, ZuluStr(end_dt), Naive(EndWall - 1)}

FileRows == {[link |-> u, author |-> "", date |-> d] : u \in URLs, d \in RowDates}

\* the sequences over S of length n at most
RECURSIVE SeqsUpTo(_, _)
SeqsUpTo(S, n) ==
    IF n = 0 THEN {<<>>}
    ELSE LET shorter == SeqsUpTo(S, n - 1)
         IN  shorter \cup {Append(q, x) : q \in shorter, x \in S}

SortInit ==
    /\ max_scroll = None
    /\ max_urls = None
    /\ old_streak_stop = MaxOption
    /\ seen_urls = {}
    /\ old_count_streak = 0
    /\ seen_recent_article = FALSE
    /\ stop_requested = FALSE
    /\ item_count = 0
    /\ close_reason = "finished"
    /\ pc = "gave_up"
    /\ archive_retry_count = 2
    /\ scroll_round = 0
    /\ idx = 0
    /\ requests = {}
    /\ output \in SeqsUpTo(FileRows, MaxRows)
    /\ run_ended = FALSE
    /\ archive_requests = 3
    /\ dispatch_count = [u \in URLs |-> 0]
    /\ g_recent = FALSE
    /\ g_old = 0
    /\ last = Step("spider_closed")

SortNext == \E io \in IoOutcomes, k \in 0..MaxRows : OnEngineStopped(io, k)

SortSpec == SortInit /\ [][SortNext]_vars

-----------------------------------------------------------------------------
(* The article callback on pages with structured data and author nodes.  The  *)
(* run taken has dispatched two URLs from anchors without inline timestamp    *)
(* in its first round and left the loop at max_urls = 2; both requests are in *)
(* flight.                                                                    *)

Person(name) == JDict("Person", JStr(name), JNull, <<>>)
ArticleBy(author) == JDict("NewsArticle", JStr("Headline"), author, <<>>)

\* the ld+json scripts tried, each with the author meta tags it is tried with
AuthorDocs ==
    { [scripts |-> <<>>,
       metas |-> {NoText, "", " ", " Desk "}],
      [scripts |-> <<Script(ArticleBy(JStr(" Ann ")))>>,
       metas |-> {NoText, " Desk "}],
      [scripts |-> <<Script(ArticleBy(Person("Ann")))>>,
       metas |-> {" Desk "}],
      [scripts |-> <<Script(ArticleBy(Person(" ")))>>,
       metas |-> {NoText, " Desk "}],
      [scripts |-> <<Script(ArticleBy(JOther))>>,
       metas |-> {" Desk "}],
      [scripts |-> <<Script(ArticleBy(JList(<<Person("Ann"), JStr(""), JStr("Bob")>>)))>>,
       metas |-> {" Desk "}],
      [scripts |-> <<Script(ArticleBy(JList(<<Person(" "), JOther>>)))>>,
       metas |-> {" Desk "}],
      [scripts |-> <<Blank, Malformed, Script(JDict("Article", JNull, Person("Bob"), <<>>))>>,
       metas |-> {" Desk "}],
      [scripts |-> <<Script(JList(<<Person("Eve"), ArticleBy(JStr("Ann"))>>))>>,
       metas |-> {" Desk "}],
      [scripts |-> <<Script(JDict("Article", JNull, JNull, <<JDict("Thing Person", JStr("Bob"), JNull, <<>>)>>)),
                     Script(ArticleBy(JStr("Ann")))>>,
       metas |-> {" Desk "}],
      [scripts |-> <<Script(JDict("WebPage", JStr("Site"), JNull, <<Person("Bob")>>))>>,
       metas |-> {NoText, " Desk "}],
      [scripts |-> <<Malformed>>,
       metas |-> {NoText, " Desk "}] }

\* the pages of the article callback: dated inside the window, at its start,
\* or not at all
AuthorPages ==
    UNION { { WithAuthor(page, doc.scripts, meta, rel) :
                page \in {PageOf(DtNone, MidStr, DtNone), PageOf(StartStr, DtNone, DtNone),
                          PageOf(DtBad, DtNone, DtNone)},
                meta \in doc.metas,
                rel \in {NoText, "Rel"} } : doc \in AuthorDocs }

ArticleInit ==
    /\ max_scroll = None
    /\ max_urls = 2
    /\ old_streak_stop = MaxOption
    /\ seen_urls = {1, 2}
    /\ old_count_streak = 0
    /\ seen_recent_article = FALSE
    /\ stop_requested = FALSE
    /\ item_count = 0
    /\ close_reason = "unknown"
    /\ pc = "done"
    /\ archive_retry_count = 0
    /\ scroll_round = 0
    /\ idx = 1
    /\ requests = {[url |-> u, archive_dt_str |-> DtNone] : u \in {1, 2}}
    /\ output = <<>>
    /\ run_ended = FALSE
    /\ archive_requests = 1
    /\ dispatch_count = [u \in URLs |-> IF u \in {1, 2} THEN 1 ELSE 0]
    /\ g_recent = FALSE
    /\ g_old = 0
    /\ last = StepOn("listing_dispatch", 2, NoDt)

ArticleNext ==
    \/ \E req \in requests, page \in AuthorPages : ParseArticle(req, page)
    \/ \E req \in requests : ArticleFailed(req)
    \/ CloseStep

ArticleSpec == ArticleInit /\ [][ArticleNext]_vars

-----------------------------------------------------------------------------
(* Properties *)

Dates == {ParseDatetime(output[i].date) : i \in DOMAIN output}
Links == {output[i].link : i \in DOMAIN output}

RECURSIVE SumOver(_, _)
SumOver(f, S) ==
    IF S = {} THEN 0
    ELSE LET u == CHOOSE x \in S : TRUE
         IN  f[u] + SumOver(f, S \ {u})

\* the article requests yielded so far
TotalDispatched == SumOver(dispatch_count, URLs)

C2_AtMostOncePerUrl ==
    /\ \A u \in URLs : dispatch_count[u] <= 1
    /\ \A i, j \in DOMAIN output : output[i].link = output[j].link => i = j

\* a later round met again the anchor of a URL whose record is emitted
C2_SeenAnchorRendered ==
    /\ last.step = "listing_seen"
    /\ scroll_round >= 2
    /\ Links # {}

\* a step brings the streak to the threshold
BringsStreakToStop ==
    old_count_streak' = old_streak_stop /\ old_count_streak # old_streak_stop

\* stop_requested goes from false to true only in a step that brings the
\* streak to the threshold, and no such step leaves it false
StopExactlyAtThreshold ==
    /\ (~stop_requested /\ stop_requested') => BringsStreakToStop
    /\ BringsStreakToStop => stop_requested'

\* C3, as stated: for every old_streak_stop, 0 included, stop_requested is set
\* exactly in the steps that bring the streak to old_streak_stop.
C3_StopExactlyAtThreshold == [][StopExactlyAtThreshold]_vars

\* C3, amended: for every old_streak_stop >= 1, stop_requested is set exactly in
\* the steps that bring the streak to old_streak_stop.
C3_StopExactlyAtPositiveThreshold ==
    [][old_streak_stop >= 1 => StopExactlyAtThreshold]_vars

\* an article-level classification brought the streak to a threshold of 2
C3_StoppedAtThreshold ==
    /\ last.step = "article_old_stop"
    /\ old_streak_stop = 2
    /\ old_count_streak = old_streak_stop
    /\ stop_requested

\* C4: the streak is the number of classifications as too old made, at either
\* level, since the latest classification as in the window, and 0 before the
\* first of those; no increment or reset is lost.
C4_StreakCountsOldSinceRecent ==
    old_count_streak = IF g_recent THEN g_old ELSE 0

\* two classifications as too old were counted, the second by an article callback
C4_TwoOldCounted ==
    /\ last.step \in {"article_old_counted", "article_old_stop"}
    /\ g_old >= 2

\* C5: while no in-window item has been seen, the streak is 0 and no stop is
\* requested, whatever has been classified as too old.
C5_NoStreakBeforeWindow ==
    ~seen_recent_article => (old_count_streak = 0 /\ ~stop_requested)

\* an article was classified as too old before any in-window item
C5_OldBeforeWindow == last.step = "article_old_ignored" /\ ~seen_recent_article

\* C6: once stop_requested holds no scroll round begins (page.content() is not
\* called again), and the scroll loop ends.
C6_NoRoundAfterStop ==
    /\ [][stop_requested => ~(pc # "await_content" /\ pc' = "await_content")]_vars
    /\ (stop_requested ~> pc = "done")

\* the loop ended at its stop_requested test
C6_LoopStopped == last.step = "loop_stop_requested" /\ pc = "done" /\ stop_requested

\* C7: once stop_requested holds, no article request is dispatched.
C7_NoDispatchAfterStop ==
    [][stop_requested => dispatch_count' = dispatch_count]_vars

\* the steps of parse_article
ArticleSteps == {"article_no_date", "article_new", "article_old_ignored",
                 "article_old_counted", "article_old_stop", "article_outside",
                 "article_emit"}

\* C8: every dispatched article request completes, and when parse_article has
\* run on a page whose resolved date is in the window the record of its URL is
\* emitted, whether or not stop_requested or a limit was reached meanwhile.
C8_InFlightArticleEmitted ==
    /\ [](last.step \in ArticleSteps /\ last.dt # NoDt /\ Classify(last.dt) = "IN_WINDOW"
              => last.url \in Links)
    /\ (requests # {} ~> requests = {})

\* a record was emitted while stop_requested held
C8_EmittedAfterStop ==
    /\ last.step = "article_emit"
    /\ stop_requested
    /\ MaxUrlsReached(seen_urls)
    /\ last.url \in Links

\* C9: with max_urls set, the article requests dispatched never exceed it.
C9_DispatchedWithinMaxUrls == max_urls # None => TotalDispatched <= max_urls

\* C10: the listing request is issued at most 3 times and re-issued only by the
\* errback; after the third failure nothing is requested, dispatched or
\* emitted, and the run ends.
C10_ThreeListingAttempts ==
    /\ [](archive_requests <= 3)
    /\ [][archive_requests' # archive_requests =>
              /\ archive_requests' = archive_requests + 1
              /\ pc \in {"start", "archive_request"}
              /\ last'.step \in {"start_requests", "archive_retry"}]_vars
    /\ [](pc = "gave_up" => /\ archive_requests = 3
                            /\ TotalDispatched = 0
                            /\ requests = {}
                            /\ output = <<>> /\ item_count = 0)
    /\ [][pc = "gave_up" => pc' = "gave_up" /\ archive_requests' = archive_requests]_vars
    /\ (pc = "gave_up" ~> run_ended)

\* the run ended after the third failure of the listing request
C10_GaveUpAndEnded == pc = "gave_up" /\ run_ended /\ archive_requests = 3

\* C11: every run is finite: whatever the limits, both absent included, and
\* whatever the listing renders, the scroll loop eventually ends (or is never
\* entered, the listing request having failed three times).
C11_ScrollLoopTerminates == <>(pc \in {"done", "gave_up"})

\* the canonical date of a persisted row
Instant(row) == ParseDatetime(row.date)

\* `after` holds the rows of `before`, each as often, by ascending date, rows
\* of equal date in the order they have in `before`
IsStableSortOf(after, before) ==
    /\ Len(after) = Len(before)
    /\ \E p \in Permutations(1..Len(before)) :
           /\ \A k \in 1..Len(before) : after[k] = before[p[k]]
           /\ \A k, l \in 1..Len(before) :
                  k < l => \/ Instant(before[p[k]]) < Instant(before[p[l]])
                           \/ /\ Instant(before[p[k]]) = Instant(before[p[l]])
                              /\ p[k] < p[l]

\* C12: the sort step leaves the same records, each as often, in ascending date
\* order with records of equal date in emission order; it runs only when the
\* run is over (nothing in flight, the loop ended), and nothing is appended
\* after it.
C12_SortedStablyAfterRun ==
    /\ [][last'.step = "sort_ok" => IsStableSortOf(output', output)]_vars
    /\ [][run_ended' /\ ~run_ended => EngineIdle /\ close_reason = "finished"]_vars
    /\ [][run_ended => output' = output /\ run_ended']_vars

\* the sort ran on two records of one date and left both
C12_SortedTwoOfOneDate ==
    /\ last.step = "sort_ok"
    /\ Len(output) = 2
    /\ Instant(output[1]) = Instant(output[2])
    /\ output[1].link # output[2].link

\* the sort step failed on the file system
SortFailed == {"sort_read_error", "sort_open_error", "sort_write_error"}

\* C13: when the sort step fails, on reading or on rewriting, the persisted
\* output still holds every record emitted.
C13_FailedSortKeepsRecords ==
    [][last'.step \in SortFailed =>
          \A i \in DOMAIN output : \E j \in DOMAIN output' : output'[j] = output[i]]_vars

\* the rows a sort step that the file system lets complete leaves
Sorted(rows) == SortOutputCsvByDate(rows, "sort_ok", 0)

\* every date parses, the dates ascend
AscendingByDate(rows) ==
    /\ \A i \in DOMAIN rows : Instant(rows[i]) # NoDt
    /\ \A i, j \in DOMAIN rows : i < j => Instant(rows[i]) <= Instant(rows[j])

\* C16: the sort is idempotent: an output already in ascending date order is
\* left as it is, row for row, and sorting any output twice gives what sorting
\* it once gives, rows whose date does not parse included.
C16_SortIdempotent ==
    /\ AscendingByDate(output) => Sorted(output) = output
    /\ Sorted(Sorted(output)) = Sorted(output)

\* the sort ran on a file of three rows, one with a date that does not parse
\* and two distinct ones of one instant
C16_SortedUnparseableAndTie ==
    /\ last.step = "sort_ok"
    /\ Len(output) = 3
    /\ \E i \in DOMAIN output : Instant(output[i]) = NoDt
    /\ \E i, j \in DOMAIN output :
           /\ output[i] # output[j]
           /\ Instant(output[i]) # NoDt
           /\ Instant(output[i]) = Instant(output[j])

\* the steps of the for loop of parse_archive on one anchor
ListingSteps == {"listing_seen", "listing_new", "listing_old_ignored",
                 "listing_old_counted", "listing_old_stop", "listing_dispatch"}

\* the step handled a listing candidate whose inline timestamp parsed
ListingClassified == last'.step \in ListingSteps /\ last'.dt # NoDt

\* the candidate is not dispatched, not added to seen_urls, and the scan
\* state is as it was
CandidateSkipped == UNCHANGED <<scan, requests, dispatch_count>>

C18_AtMostMaxScrollRounds ==
    /\ [](max_scroll # None => scroll_round <= max_scroll)
    /\ [][max_scroll # None /\ pc' = "await_content" /\ pc # "await_content"
             => scroll_round' = scroll_round + 1]_vars
    /\ [][pc' = "for_anchors" /\ pc # "for_anchors" => pc = "await_content"]_vars
    /\ [][max_scroll # None /\ scroll_round = max_scroll
               /\ pc \in {"routing", "scrolling"} /\ pc' # pc
             => pc' = "done" /\ dispatch_count' = dispatch_count]_vars
    /\ [][pc = "done" => pc' = "done" /\ dispatch_count' = dispatch_count]_vars
    /\ (max_scroll # None ~> pc \in {"done", "gave_up"})

\* the loop ended at its max_scroll test after the last round allowed, with
\* requests dispatched and max_urls not reached
C18_EndedAtMaxScroll ==
    /\ last.step = "loop_max_scroll"
    /\ max_scroll = MaxOption
    /\ scroll_round = max_scroll
    /\ TotalDispatched >= 1
    /\ ~MaxUrlsReached(seen_urls)

\* the URLs an article request was dispatched for
DispatchedUrls == {u \in URLs : dispatch_count[u] > 0}

\* C19: seen_urls is the set of URLs dispatched: a URL enters it in the step
\* that dispatches it, none leaves it, and a candidate skipped as too new or too
\* old does not enter it (a later round classifies it again).
C19_SeenIsDispatched ==
    /\ [](seen_urls = DispatchedUrls)
    /\ [][seen_urls \subseteq seen_urls']_vars
    /\ [][seen_urls' # seen_urls =>
              /\ last'.step = "listing_dispatch"
              /\ seen_urls' = seen_urls \cup {last'.url}
              /\ dispatch_count'[last'.url] = dispatch_count[last'.url] + 1]_vars
    /\ [][last'.step \in {"listing_new", "listing_old_ignored",
                           "listing_old_counted", "listing_old_stop"}
             => seen_urls' = seen_urls /\ last'.url \notin seen_urls']_vars

\* the one URL never dispatched was counted as too old twice, by the listing:
\* every dispatched article was emitted, so no article step counted
C19_SkippedUrlCountedAgain ==
    /\ last.step \in {"listing_old_counted", "listing_old_stop"}
    /\ old_count_streak = 2
    /\ seen_urls = URLs \ {last.url}
    /\ Links = seen_urls
    /\ Cardinality(seen_urls) = NumUrls - 1

\* C20, as stated: whenever stop_requested holds, the streak is at or above
\* old_streak_stop.
C20_StreakAtThresholdWhileStopped ==
    stop_requested => old_count_streak >= old_streak_stop

\* C20, amended: the step that sets stop_requested leaves the streak at or
\* above old_streak_stop, and stop_requested stays set; afterwards the streak
\* falls below the threshold only by the reset of an in-window classification
\* (an article dispatched earlier, or a candidate of the round under way).
C20_StreakAtThresholdWhenStopSet ==
    /\ [][~stop_requested /\ stop_requested' => old_count_streak' >= old_streak_stop]_vars
    /\ [][stop_requested => stop_requested']_vars
    /\ [][stop_requested /\ old_count_streak >= old_streak_stop
               /\ old_count_streak' < old_streak_stop
             => /\ last'.step \in {"article_emit", "listing_dispatch"}
                /\ Classify(last'.dt) = "IN_WINDOW"
                /\ old_count_streak' = 0]_vars

\* the loop left through its stop_requested test with the streak reset to 0,
\* below the threshold, by an article that completed after the stop was set
C20_StoppedWithStreakReset ==
    /\ last.step = "loop_stop_requested"
    /\ stop_requested
    /\ old_count_streak = 0
    /\ old_streak_stop >= 1

\* the mappings of the scripts of a page that are JSON, in the order walked
RECURSIVE NodesOf(_)
NodesOf(scripts) ==
    IF scripts = <<>> THEN <<>>
    ELSE (IF Head(scripts).raw = "json" THEN WalkJsonNodes(Head(scripts).payload)
          ELSE <<>>) \o NodesOf(Tail(scripts))

IsArticleNode(node) == {"newsarticle", "article"} \cap TypeWords(node.type) # {}

\* the names the authors of the article nodes of a page resolve to
ArticleAuthors(page) ==
    LET nodes == NodesOf(page.jsonld)
    IN  {ExtractPersonName(nodes[i].author) :
            i \in {j \in DOMAIN nodes : IsArticleNode(nodes[j])}} \ {NoText}

\* the name a node offers: its author's if it is an article node and the
\* author resolves, else its own if it is Person-typed and named
NameAtNode(node) ==
    IF IsArticleNode(node) /\ ExtractPersonName(node.author) # NoText
    THEN ExtractPersonName(node.author)
    ELSE IF "person" \in TypeWords(node.type) /\ node.name.kind = "str"
            /\ Strip(node.name.text) # ""
    THEN Strip(node.name.text)
    ELSE NoText

\* the first name the structured data of a page offers, in the order walked
StructuredName(page) ==
    LET nodes == NodesOf(page.jsonld)
        named == {i \in DOMAIN nodes : NameAtNode(nodes[i]) # NoText}
    IN  IF named = {} THEN NoText
        ELSE NameAtNode(nodes[CHOOSE i \in named : \A j \in named : i <= j])

\* the author of the record the step emitted
EmittedAuthor == output'[Len(output')].author

\* the step is parse_article on this page, and it emitted a record
EmittedFrom(req, page) == ParseArticle(req, page) /\ last'.step = "article_emit"

\* below the structured data: the author meta tag, after it the rel=author text
MetaThenRel(page) ==
    LET below == IF TruthyText(page.meta_author) THEN page.meta_author
                 ELSE page.rel_author
    IN  IF TruthyText(below) THEN Strip(below) ELSE NoText

\* C15, as stated: on a page with an article author in its structured data
\* that resolves to a name and with an author meta tag, the emitted author is
\* that article author's name; the meta tag, and after it the rel=author text,
\* is used only when the structured data resolves to no author name.
C15_ArticleAuthorWins ==
    [][\A req \in requests, page \in AuthorPages :
          EmittedFrom(req, page) =>
              /\ ArticleAuthors(page) # {} /\ page.meta_author # NoText
                    => EmittedAuthor \in ArticleAuthors(page)
              /\ StructuredName(page) = NoText => EmittedAuthor = MetaThenRel(page)]_vars

\* C15, amended: when the structured data of the page offers an author name,
\* the emitted author is the first name it offers in the order walked: the
\* article author's, unless a named Person-typed node is walked before the
\* first article node whose author resolves; the author meta tag, and after
\* it the rel=author text, is used only when the structured data offers none.
C15_StructuredNameWins ==
    [][\A req \in requests, page \in AuthorPages :
          EmittedFrom(req, page) =>
              /\ ArticleAuthors(page) # {} => StructuredName(page) # NoText
              /\ StructuredName(page) # NoText => EmittedAuthor = StructuredName(page)
              /\ StructuredName(page) = NoText => EmittedAuthor = MetaThenRel(page)]_vars

\* two records were emitted from pages with an author meta tag: one by the
\* two authors of its article node, one by the Person node walked before its
\* article node (no other page of AuthorPages gives either author)
C15_StructuredAuthorsEmitted ==
    /\ last.step = "article_emit"
    /\ {output[i].author : i \in DOMAIN output} = {"Ann, Bob", "Eve"}

\* the first, in the order time attribute, published_time, pubdate, hint, of
\* the sources that parse; NoDt when none parses
ChainDate(page, hint) ==
    LET chain == <<page.time_attr, page.published_time, page.pubdate, hint>>
        good == {i \in 1..4 : ParseDatetime(chain[i]) # NoDt}
    IN  IF good = {} THEN NoDt
        ELSE ParseDatetime(chain[CHOOSE i \in good : \A j \in good : i <= j])

\* C14: parse_article resolves the date to the parse of the first of time
\* attribute, published_time, pubdate and hint that parses, passing over a
\* source that is present but does not parse, and drops the article for want
\* of a date only when none parses.
C14_FirstParseableSourceWins ==
    [][\A req \in requests, page \in Pages :
          ParseArticle(req, page) => last'.dt = ChainDate(page, req.archive_dt_str)]_vars
====
